---- MODULE Spec2Model ----
(***************************************************************************)
(* Model of the PDF comparison application: the extractor                  *)
(* (extractTextFromPdf), the diff worker (diffWorker.ts) and the job       *)
(* coordinator inside the App component (the worker effect with            *)
(* handleMessage / handleError, the compare effect, and the upload / reset *)
(* handlers).                                                              *)
(*                                                                         *)
(* Strings are modelled run-length encoded: a string is a sequence of runs,*)
(* each run either a block of n whitespace characters or a block of n      *)
(* non-whitespace characters with a content identifier.  Lengths are the   *)
(* real character counts, so the size thresholds keep their source values. *)
(***************************************************************************)
EXTENDS Integers, Sequences, FiniteSets, TLC

(***************************************************************************)
(* Bounds of the model.                                                    *)
(***************************************************************************)
MaxEvents == 3    \* number of outside events: upload / remove / reset gestures and worker faults
MaxTokens == 3    \* length of the token sequences the token diff is applied to
MaxPages == 2     \* pages of the documents the extraction is applied to
MaxItems == 2     \* text items of such a document, over all its pages

(***************************************************************************)
(* Program constants.                                                      *)
(***************************************************************************)
WORD_DIFF_THRESHOLD == 200000
PARAGRAPH_DIFF_THRESHOLD == 900000
ABSOLUTE_DIFF_LIMIT_Raised == 2600000 + 1000000
ABSOLUTE_DIFF_LIMIT == 2600000

null == "null"

(***************************************************************************)
(* Strings.                                                                *)
(***************************************************************************)
Ws(n) == [ws |-> TRUE, id |-> 0, n |-> n]
Wd(id, n) == [ws |-> FALSE, id |-> id, n |-> n]
SPACE == <<Ws(1)>>
Stop == Wd(0, 1)    \* the character "."

RECURSIVE StrLen(_)
StrLen(s) == IF s = <<>> THEN 0 ELSE Head(s).n + StrLen(Tail(s))

\* str.replace(/\s+/g, ' ')
CollapseWs(s) == [i \in 1..Len(s) |-> IF s[i].ws THEN Ws(1) ELSE s[i]]

\* .trim()
RECURSIVE TrimLeft(_)
TrimLeft(s) == IF s # <<>> /\ Head(s).ws THEN TrimLeft(Tail(s)) ELSE s

RECURSIVE TrimRight(_)
TrimRight(s) ==
    IF s # <<>> /\ s[Len(s)].ws THEN TrimRight(SubSeq(s, 1, Len(s) - 1)) ELSE s

Trim(s) == TrimRight(TrimLeft(s))

\* textItem.str.replace(/\s+/g, ' ').trim()
NormalizeStr(s) == Trim(CollapseWs(s))

\* textParts.join(' ')
RECURSIVE JoinSpace(_)
JoinSpace(parts) ==
    IF parts = <<>> THEN <<>>
    ELSE IF Len(parts) = 1 THEN parts[1]
    ELSE parts[1] \o SPACE \o JoinSpace(Tail(parts))

Min(a, b) == IF a < b THEN a ELSE b
Max(a, b) == IF a > b THEN a ELSE b

(***************************************************************************)
(* The documents the user can pick.  A document is what the PDF library    *)
(* yields for it: per page a viewport and the raw text items (string,      *)
(* advance width, height, transform).  A page can fail in getPage or in    *)
(* getTextContent.                                                         *)
(***************************************************************************)
Item(str, w, h, t) ==
    [hasStr |-> TRUE, throws |-> FALSE, str |-> str, width |-> w, height |-> h, transform |-> t]
MarkedContent ==
    [hasStr |-> FALSE, throws |-> FALSE, str |-> <<>>, width |-> 0, height |-> 0,
     transform |-> <<0, 0, 0, 0, 0, 0>>]
\* an item with a str that is not a string: textItem.str.replace throws
Unreadable ==
    [hasStr |-> TRUE, throws |-> TRUE, str |-> <<>>, width |-> 0, height |-> 0,
     transform |-> <<0, 0, 0, 0, 0, 0>>]
Page(fail, W, H, items) == [fail |-> fail, width |-> W, height |-> H, items |-> items]

wThe == <<Wd(1, 49999)>>
wFox == <<Wd(2, 50000)>>
wBrown == <<Wd(3, 699999)>>
wLazy == <<Wd(4, 1749999)>>

Files ==
    <<  \* 1: not a PDF
        [type |-> "text/plain", pages |-> <<>>],
        \* 2: a PDF without recoverable text (blank item, zero-area item, failing page)
        [type |-> "application/pdf", pages |-> <<
            Page("none", 600, 800, <<
                Item(<<Ws(3)>>, 10, 10, <<10, 0, 0, 10, 50, 700>>),
                Item(wThe, 40, 10, <<10, 0, 0, 10, 700, 700>>) >>),
            Page("getTextContent", 600, 800, <<>>) >>],
        \* 3: "The fox", combined with itself exactly WORD_DIFF_THRESHOLD
        [type |-> "application/pdf", pages |-> <<
            Page("none", 600, 800, <<
                Item(<<Ws(1)>>, 10, 10, <<10, 0, 0, 10, 50, 750>>),
                Item(<<Ws(2)>> \o wThe \o <<Ws(1)>>, 40, 10, <<10, 0, 0, 10, 50, 700>>),
                MarkedContent,
                Item(wFox, 0, 0, <<3, 4, 6, 8, 580, 700>>) >>) >>],
        \* 4: "The brown fox" over two pages, the second page after a failed one
        [type |-> "application/pdf", pages |-> <<
            Page("none", 600, 800, <<
                Item(wThe, 40, 10, <<10, 0, 0, 10, 50, 700>>),
                Item(wBrown, 60, 10, <<10, 0, 0, 10, 100, 700>>) >>),
            Page("getPage", 600, 800, <<
                Item(wLazy, 40, 10, <<10, 0, 0, 10, 50, 700>>) >>),
            Page("none", 500, 700, <<
                Item(wFox, 40, 10, <<10, 0, 0, 10, 50, 600>>) >>) >>],
        \* 5: "fox lazy"
        [type |-> "application/pdf", pages |-> <<
            Page("none", 600, 800, <<
                Item(wFox, 40, 10, <<10, 0, 0, 10, 50, 700>>),
                Item(wLazy, 40, 10, <<10, 0, 0, 10, 100, 700>>) >>) >>]
    >>

FileIds == 1..Len(Files)

(***************************************************************************)
(* extractTextFromPdf                                                      *)
(***************************************************************************)
\* Math.sqrt(a ** 2 + b ** 2); the documents only use exact roots
Hypot(a, b) == CHOOSE r \in 0..(a * a + b * b) : r * r = a * a + b * b

\* viewport.convertToViewportRectangle at scale 1 for an unrotated page
\* whose view box starts at the origin: x stays, y is flipped.
ConvertToViewportRectangle(H, r) == <<r[1], H - r[2], r[3], H - r[4]>>

\* a normalized coordinate c / d is kept as the fraction <<c, d>>
Frac(c, d) == IF d = 0 THEN <<0, 1>> ELSE <<c, d>>

\* textItem.width || Math.sqrt(transform[0] ** 2 + transform[1] ** 2)
ItemWidth(item) ==
    IF item.width # 0 THEN item.width
    ELSE Hypot(item.transform[1], item.transform[2])

\* textItem.height && textItem.height > 0 ? textItem.height : Math.sqrt(...)
RawHeight(item) ==
    IF item.height > 0 THEN item.height
    ELSE Hypot(item.transform[3], item.transform[4])

\* rectPoints: the corners of the item in viewport coordinates
RectPoints(item, H) ==
    ConvertToViewportRectangle(H,
        <<item.transform[5], item.transform[6],
          item.transform[5] + ItemWidth(item), item.transform[6] + RawHeight(item)>>)

\* minX, minY, maxX, maxY of the corners
RawExtent(r) ==
    [minX |-> Min(r[1], r[3]), minY |-> Min(r[2], r[4]),
     maxX |-> Max(r[1], r[3]), maxY |-> Max(r[2], r[4])]

Clamped_NotClamped(e, W, H) == e

\* clampedMinX, clampedMinY, clampedMaxX, clampedMaxY
Clamped(e, W, H) ==
    [minX |-> Max(0, Min(W, e.minX)),
     minY |-> Max(0, Min(H, e.minY)),
     maxX |-> Max(Max(0, Min(W, e.minX)), Min(W, e.maxX)),
     maxY |-> Max(Max(0, Min(H, e.minY)), Min(H, e.maxY))]

\* rawWidth, rawHeight and normalizedRect of extent e clamped to c
Geometry(e, c, W, H) ==
    [rawWidth |-> e.maxX - e.minX,
     rawHeight |-> e.maxY - e.minY,
     rect |-> [x |-> Frac(c.minX, W),
               y |-> Frac(c.minY, H),
               width |-> Frac(c.maxX - c.minX, W),
               height |-> Frac(c.maxY - c.minY, H)]]

ClampedGeometry(e, W, H) == Geometry(e, Clamped(e, W, H), W, H)

\* the geometry of one text item: the raw extent and the normalized rectangle
NormalizedRectOf(item, W, H) == ClampedGeometry(RawExtent(RectPoints(item, H)), W, H)

\* the loop state of the extraction
\*   acc = [tokens, textParts, pageMetrics, absoluteIndex, itemIndex, pageNumber]
ForEachItem_DropsClipped(acc, item, value, g, pageNumber) ==
    IF ~item.hasStr THEN acc
    ELSE IF value = <<>> \/ g.rawWidth <= 0 \/ g.rawHeight <= 0
            \/ g.rect.width[1] # g.rawWidth \/ g.rect.height[1] # g.rawHeight
        THEN [acc EXCEPT !.itemIndex = @ + 1]
    ELSE [acc EXCEPT
             !.tokens = Append(@, [text |-> value,
                                   pageIndex |-> pageNumber - 1,
                                   itemIndex |-> acc.itemIndex,
                                   absoluteIndex |-> acc.absoluteIndex,
                                   rect |-> g.rect]),
             !.textParts = Append(@, value),
             !.absoluteIndex = @ + 1,
             !.itemIndex = @ + 1]

ForEachItem_CountsSkipped(acc, item, value, g, pageNumber) ==
    IF ~item.hasStr THEN acc
    ELSE IF value = <<>> \/ g.rawWidth <= 0 \/ g.rawHeight <= 0
            \/ g.rect.width[1] <= 0 \/ g.rect.height[1] <= 0
        THEN [acc EXCEPT !.itemIndex = @ + 1, !.absoluteIndex = @ + 1]
    ELSE [acc EXCEPT
             !.tokens = Append(@, [text |-> value,
                                   pageIndex |-> pageNumber - 1,
                                   itemIndex |-> acc.itemIndex,
                                   absoluteIndex |-> acc.absoluteIndex,
                                   rect |-> g.rect]),
             !.textParts = Append(@, value),
             !.absoluteIndex = @ + 1,
             !.itemIndex = @ + 1]

\* one callback of textContent.items.forEach, for an item whose normalized
\* string is value and whose geometry is g
ForEachItem(acc, item, value, g, pageNumber) ==
    IF ~item.hasStr THEN acc
    ELSE IF value = <<>> THEN [acc EXCEPT !.itemIndex = @ + 1]
    ELSE IF g.rawWidth <= 0 \/ g.rawHeight <= 0 THEN [acc EXCEPT !.itemIndex = @ + 1]
    ELSE IF g.rect.width[1] <= 0 \/ g.rect.height[1] <= 0
        THEN [acc EXCEPT !.itemIndex = @ + 1]
    ELSE [acc EXCEPT
             !.tokens = Append(@, [text |-> value,
                                   pageIndex |-> pageNumber - 1,
                                   itemIndex |-> acc.itemIndex,
                                   absoluteIndex |-> acc.absoluteIndex,
                                   rect |-> g.rect]),
             !.textParts = Append(@, value),
             !.absoluteIndex = @ + 1,
             !.itemIndex = @ + 1]

\* textContent.items.forEach: items k..Len(items) of page pageNumber; a
\* callback that throws ends the loop and leaves what was pushed before
RECURSIVE ExtractItems(_, _, _, _)
ExtractItems(acc, page, pageNumber, k) ==
    IF k > Len(page.items) THEN acc
    ELSE IF page.items[k].hasStr /\ page.items[k].throws THEN acc
    ELSE ExtractItems(
             ForEachItem(acc, page.items[k], NormalizeStr(page.items[k].str),
                         NormalizedRectOf(page.items[k], page.width, page.height),
                         pageNumber),
             page, pageNumber, k + 1)

\* pageMetrics.push({width, height}); let itemIndex = 0
PageStart(acc, page) ==
    [acc EXCEPT !.pageMetrics = Append(@, [width |-> page.width, height |-> page.height]),
                !.itemIndex = 0]

\* the body of the try block for one page; a throw leaves what was pushed
ExtractPage(acc, page, pageNumber) ==
    IF page.fail = "getPage" THEN acc
    ELSE IF page.fail = "getTextContent" THEN PageStart(acc, page)
    ELSE ExtractItems(PageStart(acc, page), page, pageNumber, 1)

\* for (pageNumber = 1; pageNumber <= pdf.numPages; pageNumber += 1) { try ... catch }
ExtractPages_AbortsOnFailure(acc, pages, pageNumber) ==
    LET RECURSIVE Loop(_, _)
        Loop(a, n) ==
            IF n > Len(pages) THEN [a EXCEPT !.pageNumber = n]
            ELSE IF pages[n].fail # "none" THEN [a EXCEPT !.pageNumber = n]
            ELSE Loop(ExtractPage(a, pages[n], n), n + 1)
    IN  Loop(acc, pageNumber)

RECURSIVE ExtractPages(_, _, _)
ExtractPages(acc, pages, pageNumber) ==
    IF pageNumber > Len(pages) THEN [acc EXCEPT !.pageNumber = pageNumber]
    ELSE ExtractPages(ExtractPage(acc, pages[pageNumber], pageNumber),
                      pages, pageNumber + 1)

NoTextMessage == "No searchable text found. The PDF may be scanned, encrypted, or corrupted."

ExtractionResult_NeverThrows(acc) ==
    [ok |-> TRUE, tokens |-> acc.tokens, fullText |-> JoinSpace(acc.textParts),
     pageMetrics |-> acc.pageMetrics]

\* the end of extractTextFromPdf: the PdfExtraction, or the thrown Error
ExtractionResult(acc) ==
    IF Len(acc.textParts) = 0
        THEN [ok |-> FALSE, message |-> NoTextMessage]
        ELSE [ok |-> TRUE,
              tokens |-> acc.tokens,
              fullText |-> JoinSpace(acc.textParts),
              pageMetrics |-> acc.pageMetrics]

\* tokens, textParts, pageMetrics and absoluteIndex before the loop
EmptyAcc ==
    [tokens |-> <<>>, textParts |-> <<>>, pageMetrics |-> <<>>, absoluteIndex |-> 0,
     itemIndex |-> 0, pageNumber |-> 1]

\* the outcome of extractTextFromPdf(file)
extractTextFromPdf(f) == ExtractionResult(ExtractPages(EmptyAcc, Files[f].pages, 1))

\* what Promise.all awaits: the outcome of the extraction of each document
ExtractionOf == [f \in FileIds |-> extractTextFromPdf(f)]

(***************************************************************************)
(* The diff engine of the worker.  The alignment of the `diff` package is  *)
(* modelled as a longest-common-subsequence alignment over units; equal    *)
(* leading units are matched first, and where dropping a unit of the old   *)
(* side loses nothing the removal comes before the insertion.              *)
(***************************************************************************)
LcsTable_Zero(eq, m, n) == [i \in 1..(m + 1), j \in 1..(n + 1) |-> 0]

\* eq[i, j] says that unit i of the old side equals unit j of the new side;
\* lcs[i, j]: length of a longest common subsequence of old[i..] and new[j..]
LcsTable(eq, m, n) ==
    LET lcs[i \in 1..(m + 1), j \in 1..(n + 1)] ==
            IF i > m \/ j > n THEN 0
            ELSE IF eq[i, j] THEN 1 + lcs[i + 1, j + 1]
            ELSE Max(lcs[i + 1, j], lcs[i, j + 1])
    IN  lcs

\* the edit script from position (i, j): a sequence of [kind, i, j]
RECURSIVE EditScript(_, _, _, _, _, _)
EditScript(eq, lcs, m, n, i, j) ==
    IF i > m /\ j > n THEN <<>>
    ELSE IF i <= m /\ j <= n /\ eq[i, j]
        THEN <<[kind |-> "common", i |-> i, j |-> j]>> \o EditScript(eq, lcs, m, n, i + 1, j + 1)
    ELSE IF j > n \/ (i <= m /\ lcs[i + 1, j] >= lcs[i, j + 1])
        THEN <<[kind |-> "removed", i |-> i, j |-> 0]>> \o EditScript(eq, lcs, m, n, i + 1, j)
    ELSE <<[kind |-> "added", i |-> 0, j |-> j]>> \o EditScript(eq, lcs, m, n, i, j + 1)

\* consecutive steps of one kind become one change object whose value is
\* the sequence of the units of the run
GroupRuns_Ungrouped(script, olds, news) ==
    [k \in 1..Len(script) |->
        [kind |-> script[k].kind,
         value |-> <<IF script[k].kind = "added" THEN news[script[k].j]
                     ELSE olds[script[k].i]>>]]

RECURSIVE GroupRuns(_, _, _)
GroupRuns(script, olds, news) ==
    IF script = <<>> THEN <<>>
    ELSE LET step == Head(script)
             unit == IF step.kind = "added" THEN news[step.j] ELSE olds[step.i]
             rest == GroupRuns(Tail(script), olds, news)
         IN  IF rest # <<>> /\ rest[1].kind = step.kind
                 THEN <<[rest[1] EXCEPT !.value = <<unit>> \o @]>> \o Tail(rest)
                 ELSE <<[kind |-> step.kind, value |-> <<unit>>]>> \o rest

\* the runs of an alignment of olds and news under the equality eq
Align(eq, olds, news) ==
    GroupRuns(EditScript(eq, LcsTable(eq, Len(olds), Len(news)),
                         Len(olds), Len(news), 1, 1),
              olds, news)

Change_Swapped(kind, value) ==
    [value |-> value, added |-> (kind = "removed"), removed |-> (kind = "added")]

\* a change object of the diff package: {value, added, removed}
Change(kind, value) ==
    [value |-> value, added |-> (kind = "added"), removed |-> (kind = "removed")]

Comparator_Identity(left, right) == left = right

Comparator_Position(left, right) == left.text = right.text /\ left.itemIndex = right.itemIndex

\* comparator: (left, right) => left.text === right.text
Comparator(left, right) == left.text = right.text

\* the change objects of the runs g
Changes(g) == [k \in 1..Len(g) |-> Change(g[k].kind, g[k].value)]

\* diffArrays(tokens1, tokens2, {comparator})
diffArrays(tokens1, tokens2) ==
    Changes(Align([i \in 1..Len(tokens1), j \in 1..Len(tokens2) |->
                      Comparator(tokens1[i], tokens2[j])],
                  tokens1, tokens2))

RECURSIVE Concat(_)
Concat(ss) == IF ss = <<>> THEN <<>> ELSE Head(ss) \o Concat(Tail(ss))

\* the sentences of rest and the blanks between them, after the unfinished
\* sentence cur: a sentence ends at a "." that a blank or the end follows
RECURSIVE SentenceUnits(_, _)
SentenceUnits(cur, rest) ==
    IF rest = <<>> THEN (IF cur = <<>> THEN <<>> ELSE <<cur>>)
    ELSE IF Head(rest) = Stop /\ Len(rest) = 1 THEN <<cur \o <<Stop>>>>
    ELSE IF Head(rest) = Stop /\ rest[2].ws
         THEN <<cur \o <<Stop>>, <<rest[2]>>>> \o SentenceUnits(<<>>, Tail(Tail(rest)))
    ELSE SentenceUnits(cur \o <<Head(rest)>>, Tail(rest))

\* the units a text is split into: words, punctuation and the blanks between
\* them for diffWords, sentences and the blanks between them for
\* diffSentences; the extracted text holds no line break, so diffLines sees
\* one unit
Units(mode, text) ==
    IF text = <<>> THEN <<>>
    ELSE IF mode = "word" THEN [i \in 1..Len(text) |-> <<text[i]>>]
    ELSE IF mode = "sentence" THEN SentenceUnits(<<>>, text)
    ELSE <<text>>

\* the change objects of the runs g of string units, each value joined
TextChanges(g) == [k \in 1..Len(g) |-> Change(g[k].kind, Concat(g[k].value))]

\* the alignment of the unit sequences a and b
AlignUnits(a, b) ==
    Align([i \in 1..Len(a), j \in 1..Len(b) |-> a[i] = b[j]], a, b)

\* diffSentences / diffLines / diffWords
diffText(mode, text1, text2) ==
    TextChanges(AlignUnits(Units(mode, text1), Units(mode, text2)))

CollectIndexes_AllChanged(tokenDiff, which) ==
    Concat([k \in 1..Len(tokenDiff) |->
               IF tokenDiff[k].removed \/ tokenDiff[k].added
               THEN [i \in 1..Len(tokenDiff[k].value) |-> tokenDiff[k].value[i].absoluteIndex]
               ELSE <<>>])

CollectIndexes_Unchanged(tokenDiff, which) ==
    Concat([k \in 1..Len(tokenDiff) |->
               IF (which = "removed") = tokenDiff[k].added
               THEN <<>>
               ELSE [i \in 1..Len(tokenDiff[k].value) |-> tokenDiff[k].value[i].absoluteIndex]])

\* tokenDiff.forEach: the absoluteIndex of every token of a removed
\* (added) part, in order
RECURSIVE CollectIndexes(_, _)
CollectIndexes(tokenDiff, which) ==
    IF tokenDiff = <<>> THEN <<>>
    ELSE LET part == Head(tokenDiff)
             mine == IF which = "removed" THEN part.removed
                     ELSE ~part.removed /\ part.added
         IN  (IF mine THEN [i \in 1..Len(part.value) |-> part.value[i].absoluteIndex]
                      ELSE <<>>)
             \o CollectIndexes(Tail(tokenDiff), which)

\* the token part of the worker: tokenDiff and the two index arrays
TokenChangeSet(tokenDiff) ==
    [tokenDiff |-> tokenDiff,
     removedTokenIndexes |-> CollectIndexes(tokenDiff, "removed"),
     addedTokenIndexes |-> CollectIndexes(tokenDiff, "added")]

\* the payload the worker computes for the texts, tokens and mode of a request
Payload(textDiff, changeSet) ==
    [textDiff |-> textDiff,
     removedTokenIndexes |-> changeSet.removedTokenIndexes,
     addedTokenIndexes |-> changeSet.addedTokenIndexes]

ComputePayload(text1, text2, tokens1, tokens2, mode) ==
    Payload(diffText(mode, text1, text2), TokenChangeSet(diffArrays(tokens1, tokens2)))

\* the documents that yield text, and the payloads of the requests that can
\* be made of them, computed once
TextFiles == {f \in FileIds : ExtractionOf[f].ok}

PayloadOf ==
    [f1 \in TextFiles, f2 \in TextFiles, mode \in {"word", "paragraph", "sentence"} |->
        ComputePayload(ExtractionOf[f1].fullText, ExtractionOf[f2].fullText,
                       ExtractionOf[f1].tokens, ExtractionOf[f2].tokens, mode)]

\* the payload of the result response to request req
DiffPayload(req) ==
    LET known == {<<f1, f2>> \in TextFiles \X TextFiles :
                     /\ ExtractionOf[f1].fullText = req.text1
                     /\ ExtractionOf[f2].fullText = req.text2
                     /\ ExtractionOf[f1].tokens = req.tokens1
                     /\ ExtractionOf[f2].tokens = req.tokens2}
    IN  IF known # {}
        THEN LET fs == CHOOSE fs \in known : TRUE IN PayloadOf[fs[1], fs[2], req.mode]
        ELSE ComputePayload(req.text1, req.text2, req.tokens1, req.tokens2, req.mode)

SetOf_Empty(seq) == {}

\* new Set(array)
SetOf(seq) == {seq[i] : i \in 1..Len(seq)}

(***************************************************************************)
(* The App component: state, refs, the two effects and the handlers.       *)
(***************************************************************************)
VARIABLES
    pdf1, pdf2,                 \* useState<File | null>: 0 is null, else a document of Files
    pdf1Extraction, pdf2Extraction,
    diffParts,
    removedTokenIndexes, addedTokenIndexes,
    isComparing,
    error,
    comparisonNote,
    workerRef,                  \* TRUE while the worker exists
    pendingJobIdRef,            \* 0 is null
    jobCounterRef,
    runs,                       \* the compare() calls suspended in Promise.all
    toWorker,                   \* requests posted to the worker, not yet handled by it
    toMain,                     \* responses posted by the worker, not yet handled
    posted,                     \* history: the requests posted so far
    handled,                    \* history: the worker events handled so far, handled or not
    gestures,                   \* number of upload / remove / reset gestures so far
    faults,                     \* number of worker error events so far
    probe                       \* the inputs and the result of a function applied on its own

appVars == <<pdf1, pdf2, pdf1Extraction, pdf2Extraction, diffParts,
             removedTokenIndexes, addedTokenIndexes, isComparing, error,
             comparisonNote, workerRef, pendingJobIdRef, jobCounterRef>>

vars == <<pdf1, pdf2, pdf1Extraction, pdf2Extraction, diffParts,
          removedTokenIndexes, addedTokenIndexes, isComparing, error,
          comparisonNote, workerRef, pendingJobIdRef, jobCounterRef,
          runs, toWorker, toMain, posted, handled,
          gestures, faults, probe>>

NullExtraction == [isNull |-> TRUE]

WorkerFaultMessage == "Unable to complete comparison in background worker."
\* the digits of n below 1000, padded to three
Pad3(n) == IF n < 10 THEN "00" \o ToString(n) ELSE IF n < 100 THEN "0" \o ToString(n) ELSE ToString(n)

\* totalLength.toLocaleString(): digits in groups of three
RECURSIVE ToLocaleString(_)
ToLocaleString(n) ==
    IF n < 1000 THEN ToString(n)
    ELSE ToLocaleString(n \div 1000) \o "," \o Pad3(n % 1000)

TooLargeMessage(totalLength) ==
    "Documents are too large for an in-browser comparison (combined text length "
    \o ToLocaleString(totalLength) \o " characters). Try comparing smaller sections."
SentenceNote == "Large documents are compared at sentence level for faster results. Highlights may be less granular."
ParagraphNote == "Medium documents are compared at paragraph level to balance speed and detail."
DiffThrowMessage == "Maximum call stack size exceeded"

\* the state after mounting: the worker exists and the compare effect has
\* run once with no document selected
AppInit ==
    /\ pdf1 = 0 /\ pdf2 = 0
    /\ pdf1Extraction = NullExtraction /\ pdf2Extraction = NullExtraction
    /\ diffParts = <<>>
    /\ removedTokenIndexes = {} /\ addedTokenIndexes = {}
    /\ isComparing = FALSE
    /\ error = null
    /\ comparisonNote = null
    /\ workerRef = TRUE
    /\ pendingJobIdRef = 0
    /\ jobCounterRef = 0
    /\ runs = <<>>
    /\ toWorker = <<>>
    /\ toMain = <<>>
    /\ posted = <<>>
    /\ handled = <<>>
    /\ gestures = 0
    /\ faults = 0

NoProbe == [kind |-> "none"]

Init == AppInit /\ probe = NoProbe

(***************************************************************************)
(* The compare effect.  The handlers below run inside discrete input       *)
(* events (change, drop, click), for which React renders and runs the      *)
(* effects of the render before any other task: a gesture and the effect   *)
(* run it triggers are one step.  The effect run is the cleanup of the     *)
(* previous run followed by compare() up to its await.                     *)
(***************************************************************************)
Cleanup_None(rs) == rs

\* return () => { isCancelled = true }
Cleanup(rs) == [i \in 1..Len(rs) |-> [rs[i] EXCEPT !.isCancelled = TRUE]]

\* the effect run of a render with pdf1 = p1 and pdf2 = p2, where e1 and e2
\* are the extractions the handler left
compare(p1, p2, e1, e2) ==
    IF p1 = 0 \/ p2 = 0
    THEN /\ diffParts' = <<>>
         /\ isComparing' = FALSE
         /\ error' = null
         /\ comparisonNote' = null
         /\ pdf1Extraction' = NullExtraction
         /\ pdf2Extraction' = NullExtraction
         /\ removedTokenIndexes' = {}
         /\ addedTokenIndexes' = {}
         /\ runs' = Cleanup(runs)
    ELSE /\ isComparing' = TRUE
         /\ error' = null
         /\ diffParts' = <<>>
         /\ removedTokenIndexes' = {}
         /\ addedTokenIndexes' = {}
         /\ comparisonNote' = null
         /\ pdf1Extraction' = e1
         /\ pdf2Extraction' = e2
         /\ runs' = Append(Cleanup(runs),
                           [pdf1 |-> p1, pdf2 |-> p2, isCancelled |-> FALSE])

(***************************************************************************)
(* The upload handlers and the reset button.                               *)
(***************************************************************************)
\* buildUploadProps(...).beforeUpload of the first (slot 1) or second panel
beforeUpload(slot, f) ==
    /\ gestures + faults < MaxEvents
    /\ gestures' = gestures + 1
    /\ IF Files[f].type # "application/pdf"
       THEN UNCHANGED <<pdf1, pdf2, pdf1Extraction, pdf2Extraction, diffParts,
                        removedTokenIndexes, addedTokenIndexes, isComparing,
                        error, comparisonNote, runs>>
       ELSE IF slot = 1
       THEN /\ pdf1' = f
            /\ UNCHANGED pdf2
            /\ compare(f, pdf2, NullExtraction, pdf2Extraction)
       ELSE /\ pdf2' = f
            /\ UNCHANGED pdf1
            /\ compare(pdf1, f, pdf1Extraction, NullExtraction)
    /\ UNCHANGED <<workerRef, pendingJobIdRef, jobCounterRef,
                   toWorker, toMain, posted, handled, faults, probe>>

\* buildUploadProps(...).onRemove: offered while the panel lists a file.
\* Everything the handler sets is set again, to the same value, by the
\* effect run that follows.
onRemove(slot) ==
    /\ gestures + faults < MaxEvents
    /\ gestures' = gestures + 1
    /\ IF slot = 1
       THEN /\ pdf1 # 0
            /\ pdf1' = 0
            /\ UNCHANGED pdf2
            /\ compare(0, pdf2, NullExtraction, pdf2Extraction)
       ELSE /\ pdf2 # 0
            /\ pdf2' = 0
            /\ UNCHANGED pdf1
            /\ compare(pdf1, 0, pdf1Extraction, NullExtraction)
    /\ UNCHANGED <<workerRef, pendingJobIdRef, jobCounterRef,
                   toWorker, toMain, posted, handled, faults, probe>>

\* resetComparison (the Reset Workspace button); the effect runs when a
\* document was selected
resetComparison ==
    /\ gestures + faults < MaxEvents
    /\ gestures' = gestures + 1
    /\ pdf1' = 0
    /\ pdf2' = 0
    /\ IF pdf1 # 0 \/ pdf2 # 0
       THEN compare(0, 0, NullExtraction, NullExtraction)
       ELSE /\ pdf1Extraction' = NullExtraction
            /\ pdf2Extraction' = NullExtraction
            /\ diffParts' = <<>>
            /\ removedTokenIndexes' = {}
            /\ addedTokenIndexes' = {}
            /\ error' = null
            /\ isComparing' = FALSE
            /\ comparisonNote' = null
            /\ UNCHANGED runs
    /\ UNCHANGED <<workerRef, pendingJobIdRef, jobCounterRef,
                   toWorker, toMain, posted, handled, faults, probe>>

(***************************************************************************)
(* compare() after the await of Promise.all: run i resumes.                *)
(***************************************************************************)
RemoveAt(seq, i) == SubSeq(seq, 1, i - 1) \o SubSeq(seq, i + 1, Len(seq))

InvalidPageMessage == "Unable to read at least one page of the PDF. Please ensure the file is not corrupted or password protected."
FallbackMessage == "Unable to compare the PDF files."

\* the message the catch block shows for a thrown Error
NormalizedMessage(errorMessage) ==
    IF errorMessage = "Invalid page request" THEN InvalidPageMessage
    ELSE IF errorMessage = "" THEN FallbackMessage
    ELSE errorMessage

\* totalLength > ABSOLUTE_DIFF_LIMIT
TooLarge(totalLength) == totalLength > ABSOLUTE_DIFF_LIMIT

SelectMode_Inclusive(totalLength) ==
    IF totalLength >= PARAGRAPH_DIFF_THRESHOLD THEN "sentence"
    ELSE IF totalLength >= WORD_DIFF_THRESHOLD THEN "paragraph"
    ELSE "word"

SelectMode_Swapped(totalLength) ==
    IF totalLength > PARAGRAPH_DIFF_THRESHOLD THEN "paragraph"
    ELSE IF totalLength > WORD_DIFF_THRESHOLD THEN "sentence"
    ELSE "word"

\* the granularity chosen for a combined text length
SelectMode(totalLength) ==
    IF totalLength > PARAGRAPH_DIFF_THRESHOLD THEN "sentence"
    ELSE IF totalLength > WORD_DIFF_THRESHOLD THEN "paragraph"
    ELSE "word"

\* what compare does with a combined text length: reject it, or the mode
SelectOutcome(totalLength) ==
    IF TooLarge(totalLength) THEN "reject" ELSE SelectMode(totalLength)

NoteOf_None(mode) == null

\* the advisory note set for a mode
NoteOf(mode) ==
    IF mode = "sentence" THEN SentenceNote
    ELSE IF mode = "paragraph" THEN ParagraphNote
    ELSE null

ComparingAfterCatch_Stuck == TRUE

\* setIsComparing(false), in the catch block of compare
ComparingAfterCatch == FALSE

NextJobId_NoIncrement == jobCounterRef

\* jobCounterRef.current += 1; const jobId = jobCounterRef.current
NextJobId == jobCounterRef + 1

compareResume(i) ==
    /\ i \in 1..Len(runs)
    /\ runs' = RemoveAt(runs, i)
    /\ LET run == runs[i]
           extraction1 == ExtractionOf[run.pdf1]
           extraction2 == ExtractionOf[run.pdf2]
       IN  IF ~extraction1.ok \/ ~extraction2.ok
           THEN \* catch (err)
                IF run.isCancelled
                THEN UNCHANGED <<appVars, toWorker, posted>>
                ELSE /\ error' = NormalizedMessage(IF ~extraction1.ok
                                                       THEN extraction1.message
                                                       ELSE extraction2.message)
                     /\ diffParts' = <<>>
                     /\ removedTokenIndexes' = {}
                     /\ addedTokenIndexes' = {}
                     /\ isComparing' = ComparingAfterCatch
                     /\ comparisonNote' = null
                     /\ UNCHANGED <<pdf1, pdf2, pdf1Extraction, pdf2Extraction, workerRef,
                                    pendingJobIdRef, jobCounterRef, toWorker, posted>>
           ELSE IF run.isCancelled
           THEN UNCHANGED <<appVars, toWorker, posted>>
           ELSE LET totalLength == StrLen(extraction1.fullText) + StrLen(extraction2.fullText)
                    mode == SelectMode(totalLength)
                    requestPayload == [jobId |-> 0,
                                       text1 |-> extraction1.fullText,
                                       text2 |-> extraction2.fullText,
                                       tokens1 |-> extraction1.tokens,
                                       tokens2 |-> extraction2.tokens,
                                       mode |-> mode]
                IN  /\ pdf1Extraction' = extraction1
                    /\ pdf2Extraction' = extraction2
                    /\ IF TooLarge(totalLength)
                       THEN /\ error' = TooLargeMessage(totalLength)
                            /\ diffParts' = <<>>
                            /\ removedTokenIndexes' = {}
                            /\ addedTokenIndexes' = {}
                            /\ isComparing' = FALSE
                            /\ comparisonNote' = null
                            /\ UNCHANGED <<pendingJobIdRef, jobCounterRef, toWorker, posted>>
                       ELSE /\ comparisonNote' = IF mode = "word" THEN comparisonNote
                                                 ELSE NoteOf(mode)
                            /\ IF workerRef
                               THEN /\ jobCounterRef' = NextJobId
                                    /\ pendingJobIdRef' = NextJobId
                                    /\ toWorker' = Append(toWorker,
                                           [requestPayload EXCEPT !.jobId = NextJobId])
                                    /\ posted' = Append(posted,
                                           [pdf1 |-> run.pdf1, pdf2 |-> run.pdf2,
                                            request |-> [requestPayload EXCEPT
                                                            !.jobId = NextJobId]])
                                    /\ UNCHANGED <<diffParts, removedTokenIndexes,
                                                   addedTokenIndexes, isComparing, error>>
                               ELSE LET payload == DiffPayload(requestPayload)
                                    IN  /\ diffParts' = payload.textDiff
                                        /\ removedTokenIndexes' = SetOf(payload.removedTokenIndexes)
                                        /\ addedTokenIndexes' = SetOf(payload.addedTokenIndexes)
                                        /\ isComparing' = FALSE
                                        /\ UNCHANGED <<error, pendingJobIdRef, jobCounterRef,
                                                       toWorker, posted>>
                    /\ UNCHANGED <<pdf1, pdf2, workerRef>>
    /\ UNCHANGED <<toMain, handled, gestures, faults, probe>>

(***************************************************************************)
(* The worker: ctx.onmessage handles the oldest request.                   *)
(***************************************************************************)
Responses_SilentOnThrow(req, throws) ==
    IF throws THEN <<>>
    ELSE <<[type |-> "result", jobId |-> req.jobId, payload |-> DiffPayload(req)]>>

\* the messages the handler posts for request req: the result at the end
\* of the try block, or the error in the catch block when the diff throws
Responses(req, throws) ==
    IF throws
    THEN <<[type |-> "error", jobId |-> req.jobId, payload |-> DiffThrowMessage]>>
    ELSE <<[type |-> "result", jobId |-> req.jobId, payload |-> DiffPayload(req)]>>

onmessage(throws) ==
    /\ toWorker # <<>>
    /\ toMain' = toMain \o Responses(Head(toWorker), throws)
    /\ toWorker' = Tail(toWorker)
    /\ UNCHANGED <<appVars, runs, posted, handled, gestures, faults, probe>>

(***************************************************************************)
(* The worker effect's listeners.                                          *)
(***************************************************************************)
IsCurrent_Always(data) == TRUE

IsCurrent_AnyPending(data) == pendingJobIdRef # 0

\* !(data.jobId !== pendingJobIdRef.current)
IsCurrent(data) == data.jobId = pendingJobIdRef

PendingAfterMessage_Kept == pendingJobIdRef

\* pendingJobIdRef.current = null, in handleMessage
PendingAfterMessage == 0

ErrorAfterResult_Kept == error

\* setError(null), in handleMessage for a result
ErrorAfterResult == null

ComparingAfterMessage_Stuck == TRUE

\* setIsComparing(false), in handleMessage
ComparingAfterMessage == FALSE

Handled(jobId, kind, ok) == [jobId |-> jobId, kind |-> kind, accepted |-> ok]

\* handleMessage for the k-th undelivered response
handleMessage(k) ==
    /\ k \in 1..Len(toMain)
    /\ toMain' = RemoveAt(toMain, k)
    /\ LET data == toMain[k]
       IN  IF ~IsCurrent(data)
           THEN /\ handled' = Append(handled, Handled(data.jobId, data.type, FALSE))
                /\ UNCHANGED appVars
           ELSE /\ pendingJobIdRef' = PendingAfterMessage
                /\ IF data.type = "result"
                   THEN /\ diffParts' = data.payload.textDiff
                        /\ removedTokenIndexes' = SetOf(data.payload.removedTokenIndexes)
                        /\ addedTokenIndexes' = SetOf(data.payload.addedTokenIndexes)
                        /\ error' = ErrorAfterResult
                   ELSE /\ diffParts' = <<>>
                        /\ removedTokenIndexes' = {}
                        /\ addedTokenIndexes' = {}
                        /\ error' = data.payload
                /\ isComparing' = ComparingAfterMessage
                /\ handled' = Append(handled, Handled(data.jobId, data.type, TRUE))
                /\ UNCHANGED <<pdf1, pdf2, pdf1Extraction, pdf2Extraction, comparisonNote,
                               workerRef, jobCounterRef>>
    /\ UNCHANGED <<runs, toWorker, posted, gestures, faults, probe>>

\* the message events of one worker are delivered in the order posted
onWorkerMessage == handleMessage(1)

\* delivery in any order, as the coordinator's contract allows
onWorkerMessageAnyOrder == \E k \in 1..Len(toMain) : handleMessage(k)

NothingPending_Never == FALSE

\* pendingJobIdRef.current === null, in handleError
NothingPending == pendingJobIdRef = 0

\* pendingJobIdRef.current = null, in handleError
PendingAfterError == 0

\* handleError: an error event of the worker
handleError ==
    /\ gestures + faults < MaxEvents
    /\ faults' = faults + 1
    /\ IF NothingPending
       THEN /\ handled' = Append(handled, Handled(pendingJobIdRef, "fault", FALSE))
            /\ UNCHANGED appVars
       ELSE /\ diffParts' = <<>>
            /\ removedTokenIndexes' = {}
            /\ addedTokenIndexes' = {}
            /\ error' = WorkerFaultMessage
            /\ pendingJobIdRef' = PendingAfterError
            /\ isComparing' = FALSE
            /\ handled' = Append(handled, Handled(pendingJobIdRef, "fault", TRUE))
            /\ UNCHANGED <<pdf1, pdf2, pdf1Extraction, pdf2Extraction, comparisonNote,
                           workerRef, jobCounterRef>>
    /\ UNCHANGED <<runs, toWorker, toMain, posted, gestures, probe>>

(***************************************************************************)
(* Specifications.                                                         *)
(***************************************************************************)
Gesture ==
    \/ \E slot \in 1..2, f \in FileIds : beforeUpload(slot, f)
    \/ \E slot \in 1..2 : onRemove(slot)
    \/ resetComparison

Resume == \E i \in 1..Len(runs) : compareResume(i)

WorkerStep == \E throws \in BOOLEAN : onmessage(throws)

Next ==
    \/ Gesture
    \/ Resume
    \/ WorkerStep
    \/ onWorkerMessage
    \/ handleError

Spec == Init /\ [][Next]_vars

NextAnyOrder ==
    \/ Gesture
    \/ Resume
    \/ WorkerStep
    \/ onWorkerMessageAnyOrder
    \/ handleError

SpecAnyOrder == Init /\ [][NextAnyOrder]_vars

\* the scheduling the liveness claims rely on: the extractions finish, the
\* worker answers, and the answers are delivered
FairSpec ==
    /\ Init /\ [][Next]_vars
    /\ WF_vars(Resume)
    /\ WF_vars(WorkerStep)
    /\ WF_vars(onWorkerMessage)

(***************************************************************************)
(* The mode selection applied on its own to pairs of combined lengths      *)
(* around the thresholds.                                                  *)
(***************************************************************************)
Lengths ==
    {0, 1, 950000, 2700000}
    \cup {t + d : t \in {WORD_DIFF_THRESHOLD, PARAGRAPH_DIFF_THRESHOLD, ABSOLUTE_DIFF_LIMIT},
                  d \in {0 - 1, 0, 1}}

ModeInit ==
    /\ AppInit
    /\ probe \in {[kind |-> "mode", L1 |-> a, L2 |-> b, done |-> FALSE,
                    outcome1 |-> "", outcome2 |-> ""] : a, b \in Lengths}

SelectModes ==
    /\ probe.kind = "mode" /\ ~probe.done
    /\ probe' = [probe EXCEPT !.done = TRUE,
                              !.outcome1 = SelectOutcome(probe.L1),
                              !.outcome2 = SelectOutcome(probe.L2)]
    /\ UNCHANGED <<appVars, runs, toWorker, toMain, posted, handled, gestures, faults>>

SpecMode == ModeInit /\ [][SelectModes]_vars

\* C11: the outcome follows the table of the combined length: reject above
\* 2,600,000, sentence above 900,000, paragraph above 200,000, word
\* otherwise; the three limits themselves fall in the lower row
C11_ModeTable ==
    (probe.kind = "mode" /\ probe.done)
    => probe.outcome1 = (IF probe.L1 > 2600000 THEN "reject"
                         ELSE IF probe.L1 > 900000 THEN "sentence"
                         ELSE IF probe.L1 > 200000 THEN "paragraph"
                         ELSE "word")

C11_Witness ==
    /\ probe.kind = "mode" /\ probe.done
    /\ probe.L1 = 200000 /\ probe.outcome1 = "word"
    /\ probe.L2 = 2600000 /\ probe.outcome2 = "sentence"

\* word is the finest granularity, sentence the coarsest
Coarseness(mode) == IF mode = "word" THEN 0 ELSE IF mode = "paragraph" THEN 1 ELSE 2

\* C12: of two combined lengths that are not rejected, the larger never gets
\* a finer mode than the smaller
C12_MonotonicDegradation ==
    (/\ probe.kind = "mode" /\ probe.done
     /\ probe.L1 < probe.L2
     /\ probe.outcome1 # "reject" /\ probe.outcome2 # "reject")
    => Coarseness(probe.outcome1) <= Coarseness(probe.outcome2)

C12_Witness ==
    /\ probe.kind = "mode" /\ probe.done
    /\ probe.L1 = 200001 /\ probe.outcome1 = "paragraph"
    /\ probe.L2 = 900001 /\ probe.outcome2 = "sentence"

(***************************************************************************)
(* The highlight layer of one page of a preview.                           *)
(***************************************************************************)
\* rect.x * width for the normalized coordinate c / d, kept as a fraction
Scaled(frac, size) == <<frac[1] * size, frac[2]>>

PageHighlights_AnyPage(tokens, highlights, pageIndex, W, H) ==
    IF highlights = {} THEN <<>>
    ELSE SelectSeq(
             [i \in 1..Len(tokens) |->
                 [token |-> tokens[i],
                  left |-> Scaled(tokens[i].rect.x, W),
                  top |-> Scaled(tokens[i].rect.y, H),
                  width |-> Scaled(tokens[i].rect.width, W),
                  height |-> Scaled(tokens[i].rect.height, H)]],
             LAMBDA box : /\ box.token.absoluteIndex \in highlights
                          /\ box.width[1] > 0 /\ box.height[1] > 0)

\* the boxes appended to the highlight layer of page pageIndex, whose
\* viewport is W x H, for the change set highlights
PageHighlights(tokens, highlights, pageIndex, W, H) ==
    IF highlights = {} THEN <<>>
    ELSE SelectSeq(
             [i \in 1..Len(tokens) |->
                 [token |-> tokens[i],
                  left |-> Scaled(tokens[i].rect.x, W),
                  top |-> Scaled(tokens[i].rect.y, H),
                  width |-> Scaled(tokens[i].rect.width, W),
                  height |-> Scaled(tokens[i].rect.height, H)]],
             LAMBDA box : /\ box.token.pageIndex = pageIndex
                          /\ box.token.absoluteIndex \in highlights
                          /\ box.width[1] > 0 /\ box.height[1] > 0)

(***************************************************************************)
(* The token part of the worker applied on its own to two token sequences. *)
(* The sequences are what an extraction yields: absoluteIndex counts from  *)
(* 0; the tokens lie on one page, or one token per page.                   *)
(***************************************************************************)
TokenTexts == {<<Wd(1, 3)>>, <<Wd(2, 3)>>, <<Wd(3, 5), Ws(1), Wd(4, 5)>>}

TextSeqs == UNION {[1..n -> TokenTexts] : n \in 1..MaxTokens}

PageW == 600
PageH == 800

MkTokens(texts, layout) ==
    [i \in 1..Len(texts) |->
        [text |-> texts[i],
         pageIndex |-> IF layout = 0 THEN 0 ELSE i - 1,
         itemIndex |-> IF layout = 0 THEN i - 1 ELSE 0,
         absoluteIndex |-> i - 1,
         rect |-> IF layout = 0
                  THEN [x |-> <<100 * i, PageW>>, y |-> <<90, PageH>>,
                        width |-> <<40, PageW>>, height |-> <<10, PageH>>]
                  ELSE [x |-> <<50, PageW>>, y |-> <<700, PageH>>,
                        width |-> <<60, PageW>>, height |-> <<12, PageH>>]]]

TextsOf(tokens) == [i \in 1..Len(tokens) |-> tokens[i].text]

IndexesOf(tokens) == {tokens[i].absoluteIndex : i \in 1..Len(tokens)}

TokenInit ==
    /\ AppInit
    /\ probe \in {[kind |-> "tokens",
                    tokens1 |-> MkTokens(a, l1), tokens2 |-> MkTokens(b, l2),
                    done |-> FALSE,
                    tokenDiff |-> <<>>, removed |-> {}, added |-> {}] :
                       a \in TextSeqs, b \in TextSeqs, l1 \in {0, 1}, l2 \in {0, 1}}

\* the token diff of the worker, and the sets the App makes of its arrays
diffTokens ==
    /\ probe.kind = "tokens" /\ ~probe.done
    /\ probe' = [probe EXCEPT
                    !.done = TRUE,
                    !.tokenDiff = diffArrays(probe.tokens1, probe.tokens2),
                    !.removed = SetOf(TokenChangeSet(
                                    diffArrays(probe.tokens1, probe.tokens2)).removedTokenIndexes),
                    !.added = SetOf(TokenChangeSet(
                                    diffArrays(probe.tokens1, probe.tokens2)).addedTokenIndexes)]
    /\ UNCHANGED <<appVars, runs, toWorker, toMain, posted, handled, gestures, faults>>

SpecTokens == TokenInit /\ [][diffTokens]_vars

TokensDone == probe.kind = "tokens" /\ probe.done

\* C14 as stated: no absoluteIndex value is in both sets
C14_DisjointValues == TokensDone => probe.removed \cap probe.added = {}

\* C14: the removed set holds absoluteIndex values of tokens of document A
\* only and the added set values of tokens of document B only.  The two
\* documents count their tokens from 0 each, so the same number can be in
\* both sets.
C14_SetsIndexTheirOwnDocument ==
    TokensDone
    => /\ probe.removed \subseteq IndexesOf(probe.tokens1)
       /\ probe.added \subseteq IndexesOf(probe.tokens2)
       /\ Cardinality(probe.removed) <= Len(probe.tokens1)
       /\ Cardinality(probe.added) <= Len(probe.tokens2)

\* a one-token document replaced by a three-token one: index 0 is in both sets
C14_Witness ==
    /\ TokensDone
    /\ Len(probe.tokens1) = 1 /\ Len(probe.tokens2) = 3
    /\ probe.removed = {0} /\ probe.added = {0, 1, 2}

\* the absoluteIndex values of the tokens of the runs of tokenDiff flagged which
IndexesOfRuns(tokenDiff, which) ==
    UNION {IndexesOf(tokenDiff[k].value) :
              k \in {n \in 1..Len(tokenDiff) : IF which = "removed" THEN tokenDiff[n].removed
                                                ELSE tokenDiff[n].added}}

\* C15: the removed set is exactly the indexes of the tokens in removed
\* runs, the added set exactly those of the tokens in added runs; as many
\* tokens of A are outside removed as tokens of B are outside added
C15_SetsAreTheChangedRuns ==
    TokensDone
    => /\ probe.removed = IndexesOfRuns(probe.tokenDiff, "removed")
       /\ probe.added = IndexesOfRuns(probe.tokenDiff, "added")
       /\ \A k \in 1..Len(probe.tokenDiff) :
             /\ probe.tokenDiff[k].removed
                => \A i \in 1..Len(probe.tokenDiff[k].value) :
                      \E n \in 1..Len(probe.tokens1) :
                          probe.tokenDiff[k].value[i] = probe.tokens1[n]
             /\ probe.tokenDiff[k].added
                => \A i \in 1..Len(probe.tokenDiff[k].value) :
                      \E n \in 1..Len(probe.tokens2) :
                          probe.tokenDiff[k].value[i] = probe.tokens2[n]
       /\ Len(probe.tokens1) - Cardinality(probe.removed)
          = Len(probe.tokens2) - Cardinality(probe.added)

\* an unchanged run between a removed and an added one
C15_Witness ==
    /\ TokensDone
    /\ probe.removed # {} /\ probe.added # {}
    /\ Cardinality(probe.removed) < Len(probe.tokens1)

\* the tokens with the same text and absoluteIndex laid out on one page
Relaid(tokens) == MkTokens(TextsOf(tokens), 0)

\* C16: the sets depend on the text and absoluteIndex of the tokens only:
\* they are those of the same tokens with another pageIndex, itemIndex and rect
C16_EqualityByTextOnly ==
    TokensDone
    => /\ probe.removed = SetOf(TokenChangeSet(diffArrays(Relaid(probe.tokens1),
                                                          Relaid(probe.tokens2))).removedTokenIndexes)
       /\ probe.added = SetOf(TokenChangeSet(diffArrays(Relaid(probe.tokens1),
                                                        Relaid(probe.tokens2))).addedTokenIndexes)

\* equal texts at different places, nothing changed
C16_Witness ==
    /\ TokensDone
    /\ Len(probe.tokens1) >= 2
    /\ TextsOf(probe.tokens1) = TextsOf(probe.tokens2)
    /\ probe.tokens1 # probe.tokens2
    /\ probe.removed = {} /\ probe.added = {}

\* a is b with some elements left out
RECURSIVE IsSubsequence(_, _)
IsSubsequence(a, b) ==
    IF a = <<>> THEN TRUE
    ELSE IF b = <<>> THEN FALSE
    ELSE IF Head(a) = Head(b) THEN IsSubsequence(Tail(a), Tail(b))
    ELSE IsSubsequence(a, Tail(b))

\* C17: when the texts of A are a subsequence of the texts of B nothing is
\* removed and exactly |B| - |A| tokens of B are added
C17_InsertionsOnly ==
    (TokensDone /\ IsSubsequence(TextsOf(probe.tokens1), TextsOf(probe.tokens2)))
    => /\ probe.removed = {}
       /\ Cardinality(probe.added) = Len(probe.tokens2) - Len(probe.tokens1)

\* a token inserted in the middle
C17_Witness ==
    /\ TokensDone
    /\ Len(probe.tokens1) = 2 /\ Len(probe.tokens2) = 3
    /\ probe.tokens1[1].text = probe.tokens2[1].text
    /\ probe.tokens1[2].text = probe.tokens2[3].text
    /\ probe.tokens1[2].text # probe.tokens2[2].text
    /\ probe.tokens1[1].text # probe.tokens2[2].text
    /\ probe.removed = {} /\ probe.added = {1}

\* C18: documents with the same token texts give two empty sets, and no
\* highlight on any page of either side
C18_IdenticalDocuments ==
    (TokensDone /\ TextsOf(probe.tokens1) = TextsOf(probe.tokens2))
    => /\ probe.removed = {}
       /\ probe.added = {}
       /\ \A p \in 0..(MaxTokens - 1) :
             /\ PageHighlights(probe.tokens1, probe.removed, p, PageW, PageH) = <<>>
             /\ PageHighlights(probe.tokens2, probe.added, p, PageW, PageH) = <<>>

\* the same texts, laid out differently in the two documents
C18_Witness ==
    /\ TokensDone
    /\ Len(probe.tokens1) = MaxTokens
    /\ TextsOf(probe.tokens1) = TextsOf(probe.tokens2)
    /\ probe.tokens1[2].pageIndex # probe.tokens2[2].pageIndex
    /\ probe.removed = {}

\* the positions of text t in tokens
Occurrences(tokens, t) == {i \in 1..Len(tokens) : tokens[i].text = t}

Segment(value, type) == [value |-> value, type |-> type]

leftSegments_AddedToo(parts) ==
    [k \in 1..Len(parts) |->
        Segment(parts[k].value, IF parts[k].added THEN "added"
                                ELSE IF parts[k].removed THEN "removed" ELSE "unchanged")]

\* the segments of the left pane: the removed and the unchanged parts
leftSegments(parts) ==
    LET kept == SelectSeq(parts, LAMBDA part : ~part.added)
    IN  [k \in 1..Len(kept) |->
            Segment(kept[k].value, IF kept[k].removed THEN "removed" ELSE "unchanged")]

\* the segments of the right pane: the added and the unchanged parts
rightSegments(parts) ==
    LET kept == SelectSeq(parts, LAMBDA part : part.added \/ ~part.removed)
    IN  [k \in 1..Len(kept) |->
            Segment(kept[k].value, IF kept[k].added THEN "added" ELSE "unchanged")]

\* the text a pane shows
PaneText(segments) == Concat([k \in 1..Len(segments) |-> segments[k].value])

\* the fullText of a document with the token texts texts
FullTextOf(texts) == JoinSpace(texts)

SentenceTexts == {<<Wd(1, 3)>>, <<Wd(2, 3)>>, <<Wd(2, 3), Stop>>}

SentenceSeqs == UNION {[1..n -> SentenceTexts] : n \in 1..MaxTokens}

Modes == {"word", "paragraph", "sentence"}

TextInit ==
    /\ AppInit
    /\ probe \in {[kind |-> "text", mode |-> mode,
                    text1 |-> FullTextOf(a), text2 |-> FullTextOf(b),
                    done |-> FALSE, diffParts |-> <<>>] :
                       a \in SentenceSeqs, b \in SentenceSeqs, mode \in Modes}

\* the text diff of the worker in the mode of the request
diffTexts ==
    /\ probe.kind = "text" /\ ~probe.done
    /\ probe' = [probe EXCEPT !.done = TRUE,
                              !.diffParts = diffText(probe.mode, probe.text1, probe.text2)]
    /\ UNCHANGED <<appVars, runs, toWorker, toMain, posted, handled, gestures, faults>>

SpecText == TextInit /\ [][diffTexts]_vars

TextDone == probe.kind = "text" /\ probe.done

\* C20: in every mode the unchanged and removed segments, in order, spell
\* the text of document A and the unchanged and added segments the text of
\* document B; no part is both added and removed
C20_Coverage ==
    TextDone
    => /\ PaneText(leftSegments(probe.diffParts)) = probe.text1
       /\ PaneText(rightSegments(probe.diffParts)) = probe.text2
       /\ \A k \in 1..Len(probe.diffParts) :
             ~(probe.diffParts[k].added /\ probe.diffParts[k].removed)

\* two sentences of which the second one is replaced, in sentence mode
C20_Witness ==
    /\ TextDone
    /\ probe.mode = "sentence"
    /\ Len(probe.diffParts) = 3
    /\ ~probe.diffParts[1].added /\ ~probe.diffParts[1].removed
    /\ probe.diffParts[2].removed
    /\ probe.diffParts[3].added
    /\ probe.text1 # probe.text2

PageSizeOf(pageNumber) == IF pageNumber % 2 = 1 THEN <<600, 800>> ELSE <<500, 700>>

\* a run inside every page
itemInside == Item(<<Ws(1), Wd(1, 3)>>, 40, 10, <<10, 0, 0, 10, 50, 690>>)
\* a run of blanks
itemBlank == Item(<<Ws(2)>>, 10, 10, <<10, 0, 0, 10, 50, 650>>)
\* a run inside an odd page that spills past the right edge of an even page
itemSpill == Item(<<Wd(2, 5)>>, 40, 10, <<10, 0, 0, 10, 480, 690>>)
\* a run right of every page
itemOutside == Item(<<Wd(3, 4)>>, 40, 10, <<10, 0, 0, 10, 700, 690>>)
\* a run without extent
itemFlat == Item(<<Wd(4, 2)>>, 0, 0, <<0, 0, 0, 0, 50, 600>>)

ItemChoices ==
    {itemInside, itemBlank, itemSpill, itemOutside, itemFlat, MarkedContent, Unreadable}

\* the pages with number pageNumber that hold j items
PageChoices(pageNumber, j) ==
    {Page("none", PageSizeOf(pageNumber)[1], PageSizeOf(pageNumber)[2], items) :
        items \in [1..j -> ItemChoices]}
    \cup {Page(fail, PageSizeOf(pageNumber)[1], PageSizeOf(pageNumber)[2], <<>>) :
              fail \in IF j = 0 THEN {"getPage", "getTextContent"} ELSE {}}

\* the documents of n pages with at most m items
RECURSIVE DocsOfLen(_, _)
DocsOfLen(n, m) ==
    IF n = 0 THEN {<<>>}
    ELSE UNION {{Append(d, page) : d \in DocsOfLen(n - 1, m - j), page \in PageChoices(n, j)} :
                   j \in 0..m}

Docs == UNION {DocsOfLen(n, MaxItems) : n \in 1..MaxPages}

\* Promise.all([extractTextFromPdf(pdf1), extractTextFromPdf(pdf2)])
ExtractionsPerRequest == 2

\* getDocument gives a new PDFDocumentProxy on every call
NextHandle(calls) == Len(calls) + 1

DestroyedAfter_OnlyOnReturn(outcome) == outcome.ok

\* try { ... } finally { pdf.destroy() }
DestroyedAfter(outcome) == TRUE

\* one call of extractTextFromPdf for the document pages: the handle, the
\* loop state at the end of the loop, the outcome, and whether the handle
\* was destroyed when the call settled
ExtractCall(pages, handle) ==
    [handle |-> handle,
     acc |-> ExtractPages(EmptyAcc, pages, 1),
     outcome |-> ExtractionResult(ExtractPages(EmptyAcc, pages, 1)),
     destroyed |-> DestroyedAfter(ExtractionResult(ExtractPages(EmptyAcc, pages, 1)))]

ExtractInit ==
    /\ AppInit
    /\ probe \in {[kind |-> "extract", pages |-> d, calls |-> <<>>] : d \in Docs}

callExtract ==
    /\ probe.kind = "extract" /\ Len(probe.calls) < ExtractionsPerRequest
    /\ probe' = [probe EXCEPT
                    !.calls = Append(@, ExtractCall(probe.pages, NextHandle(probe.calls)))]
    /\ UNCHANGED <<appVars, runs, toWorker, toMain, posted, handled, gestures, faults>>

SpecExtract == ExtractInit /\ [][callExtract]_vars

\* the calls made so far
Calls == IF probe.kind = "extract" THEN probe.calls ELSE <<>>

\* the page fails: in getPage, in getTextContent or in the callback of an item
PageFails(page) ==
    \/ page.fail # "none"
    \/ \E k \in 1..Len(page.items) : page.items[k].hasStr /\ page.items[k].throws

\* the tokens of page pageNumber among tokens
TokensOfPage(tokens, pageNumber) ==
    SelectSeq(tokens, LAMBDA token : token.pageIndex = pageNumber - 1)

\* C22: the i-th token of an extraction, counting from 0, has absoluteIndex
\* i, whatever items were skipped and whatever pages failed
C22_DenseIndexes ==
    \A c \in 1..Len(Calls) :
        \A i \in 1..Len(Calls[c].acc.tokens) : Calls[c].acc.tokens[i].absoluteIndex = i - 1

\* a token after a failed page, with a skipped item before it on its page
C22_Witness ==
    /\ Len(Calls) >= 1
    /\ Len(probe.pages) = 2
    /\ probe.pages[1].fail = "getTextContent"
    /\ Calls[1].outcome.ok
    /\ Len(Calls[1].outcome.tokens) = 1
    /\ Calls[1].outcome.tokens[1].itemIndex = 1
    /\ Calls[1].outcome.tokens[1].absoluteIndex = 0

\* C23: the extraction throws the no-text error exactly when no token was
\* kept, and only after the loop has passed every page; a successful
\* extraction has a token and a non-empty fullText
C23_FailsIffNoToken ==
    \A c \in 1..Len(Calls) :
        /\ Calls[c].outcome.ok <=> Len(Calls[c].acc.tokens) > 0
        /\ Calls[c].acc.pageNumber = Len(probe.pages) + 1
        /\ Calls[c].outcome.ok
           => /\ Len(Calls[c].outcome.tokens) >= 1
              /\ Calls[c].outcome.tokens = Calls[c].acc.tokens
              /\ StrLen(Calls[c].outcome.fullText) > 0
        /\ ~Calls[c].outcome.ok => Calls[c].outcome.message = NoTextMessage

\* two pages that hold items but yield no token
C23_Witness ==
    /\ Len(Calls) >= 1
    /\ Len(probe.pages) = 2
    /\ probe.pages[1].fail = "none" /\ Len(probe.pages[1].items) = 1
    /\ probe.pages[2].fail = "none" /\ Len(probe.pages[2].items) = 1
    /\ ~Calls[1].outcome.ok
    /\ Calls[1].acc.pageNumber = 3

\* the tokens page pageNumber yields when it is extracted on its own
TokensAlone(page, pageNumber) == ExtractPage(EmptyAcc, page, pageNumber).tokens

\* C24: every page that does not fail contributes all the tokens it yields,
\* the tokens are in page order, and the extraction succeeds when a page
\* yields a token, whatever pages fail
C24_FailureDoesNotAbort ==
    \A c \in 1..Len(Calls) :
        /\ \A n \in 1..Len(probe.pages) :
              ~PageFails(probe.pages[n])
              => TextsOf(TokensOfPage(Calls[c].acc.tokens, n))
                 = TextsOf(TokensAlone(probe.pages[n], n))
        /\ \A i, j \in 1..Len(Calls[c].acc.tokens) :
              i < j => Calls[c].acc.tokens[i].pageIndex <= Calls[c].acc.tokens[j].pageIndex
        /\ (\E n \in 1..Len(probe.pages) :
                ~PageFails(probe.pages[n]) /\ TokensAlone(probe.pages[n], n) # <<>>)
           => Calls[c].outcome.ok

\* the first page fails in getPage and the second one yields two tokens
C24_Witness ==
    /\ Len(Calls) >= 1
    /\ Len(probe.pages) = 2
    /\ probe.pages[1].fail = "getPage"
    /\ Calls[1].outcome.ok
    /\ Len(Calls[1].outcome.tokens) = 2
    /\ Calls[1].outcome.tokens[1].pageIndex = 1

C26_OneMetricPerPage ==
    \A c \in 1..Len(Calls) :
        /\ Len(Calls[c].acc.pageMetrics) = Len(probe.pages)
        /\ \A n \in 1..Len(probe.pages) :
              n <= Len(Calls[c].acc.pageMetrics)
              => Calls[c].acc.pageMetrics[n]
                 = [width |-> probe.pages[n].width, height |-> probe.pages[n].height]

\* C27: the rectangle of every token kept has x, y, width and height in
\* [0, 1], width > 0, height > 0, x + width <= 1 and y + height <= 1
C27_RectInsidePage ==
    \A c \in 1..Len(Calls) :
        \A i \in 1..Len(Calls[c].acc.tokens) :
            LET rect == Calls[c].acc.tokens[i].rect
            IN  /\ rect.x[2] > 0 /\ rect.y[2] > 0
                /\ rect.width[2] = rect.x[2] /\ rect.height[2] = rect.y[2]
                /\ 0 <= rect.x[1] /\ rect.x[1] <= rect.x[2]
                /\ 0 <= rect.y[1] /\ rect.y[1] <= rect.y[2]
                /\ 0 < rect.width[1] /\ rect.width[1] <= rect.width[2]
                /\ 0 < rect.height[1] /\ rect.height[1] <= rect.height[2]
                /\ rect.x[1] + rect.width[1] <= rect.x[2]
                /\ rect.y[1] + rect.height[1] <= rect.y[2]

\* a token that ends at the right edge of its page, after a run that was
\* dropped
C27_Witness ==
    /\ Len(Calls) >= 1
    /\ Len(probe.pages) = 2
    /\ probe.pages[1].fail = "none"
    /\ probe.pages[1].items = <<itemOutside>>
    /\ Calls[1].outcome.ok
    /\ Calls[1].outcome.tokens[1].pageIndex = 1
    /\ Calls[1].outcome.tokens[1].rect.x[1] + Calls[1].outcome.tokens[1].rect.width[1]
       = Calls[1].outcome.tokens[1].rect.x[2]

\* the number of items with a str among the first k - 1 items
StrItemsBefore(items, k) == Cardinality({j \in 1..(k - 1) : items[j].hasStr})

\* the part of the projected rectangle of item that lies on the W x H page
OnPage(item, W, H) ==
    LET e == RawExtent(RectPoints(item, H))
    IN  [left |-> Max(0, e.minX), right |-> Min(W, e.maxX),
         top |-> Max(0, e.minY), bottom |-> Min(H, e.maxY)]

\* C28: a run with text and a rectangle of positive size is kept exactly
\* when the part of its rectangle on the page has positive width and
\* height, and the token's rectangle is that part
C28_ClippedNotDiscarded ==
    \A c \in 1..Len(Calls) :
        \A n \in 1..Len(probe.pages) :
            (probe.pages[n].fail = "none" /\ ~PageFails(probe.pages[n]))
            => \A k \in 1..Len(probe.pages[n].items) :
                  LET item == probe.pages[n].items[k]
                      W == probe.pages[n].width
                      H == probe.pages[n].height
                      part == OnPage(item, W, H)
                      kept == {i \in 1..Len(Calls[c].acc.tokens) :
                                  /\ Calls[c].acc.tokens[i].pageIndex = n - 1
                                  /\ Calls[c].acc.tokens[i].itemIndex
                                     = StrItemsBefore(probe.pages[n].items, k)}
                  IN  (/\ item.hasStr /\ NormalizeStr(item.str) # <<>>
                       /\ NormalizedRectOf(item, W, H).rawWidth > 0
                       /\ NormalizedRectOf(item, W, H).rawHeight > 0)
                      => /\ (kept # {}) <=> (part.left < part.right /\ part.top < part.bottom)
                         /\ \A i \in kept :
                               /\ Calls[c].acc.tokens[i].text = NormalizeStr(item.str)
                               /\ Calls[c].acc.tokens[i].rect
                                  = [x |-> <<part.left, W>>, y |-> <<part.top, H>>,
                                     width |-> <<part.right - part.left, W>>,
                                     height |-> <<part.bottom - part.top, H>>]

\* on an even page the spilling run is kept with the 20 units that fit,
\* and the run right of the page is dropped
C28_Witness ==
    /\ Len(Calls) >= 1
    /\ Len(probe.pages) = 2
    /\ probe.pages[1].fail = "none" /\ probe.pages[1].items = <<>>
    /\ probe.pages[2].fail = "none"
    /\ probe.pages[2].items = <<itemOutside, itemSpill>>
    /\ Calls[1].outcome.ok
    /\ Len(Calls[1].outcome.tokens) = 1
    /\ Calls[1].outcome.tokens[1].itemIndex = 1
    /\ Calls[1].outcome.tokens[1].rect.x = <<480, 500>>
    /\ Calls[1].outcome.tokens[1].rect.width = <<20, 500>>

ViewerProps(side) ==
    IF side = "removed"
    THEN [file |-> pdf1, extraction |-> pdf1Extraction, highlights |-> removedTokenIndexes]
    ELSE [file |-> pdf2, extraction |-> pdf2Extraction, highlights |-> addedTokenIndexes]

\* page.getViewport({ scale: 1.2 })
RenderViewport(page) == [width |-> (6 * page.width) \div 5, height |-> (6 * page.height) \div 5]

\* the highlights the viewer of side draws on page pageNumber of its file
ViewerHighlights(side, pageNumber) ==
    IF ViewerProps(side).file = 0 \/ ViewerProps(side).extraction = NullExtraction THEN <<>>
    ELSE PageHighlights(ViewerProps(side).extraction.tokens, ViewerProps(side).highlights,
                        pageNumber - 1,
                        RenderViewport(Files[ViewerProps(side).file].pages[pageNumber]).width,
                        RenderViewport(Files[ViewerProps(side).file].pages[pageNumber]).height)

\* C30: a highlight drawn on a page is of a token of that page whose
\* absoluteIndex is in the removed set on the baseline side and in the
\* added set on the revised side; its box is rect.x * W, rect.y * H,
\* rect.width * W, rect.height * H and lies inside the W x H page
C30_HighlightsOfThePage ==
    \A side \in {"removed", "added"} :
        ViewerProps(side).file # 0
        => \A n \in 1..Len(Files[ViewerProps(side).file].pages) :
              LET boxes == ViewerHighlights(side, n)
                  W == RenderViewport(Files[ViewerProps(side).file].pages[n]).width
                  H == RenderViewport(Files[ViewerProps(side).file].pages[n]).height
              IN  \A b \in 1..Len(boxes) :
                      /\ boxes[b].token.pageIndex = n - 1
                      /\ boxes[b].token.absoluteIndex
                         \in (IF side = "removed" THEN removedTokenIndexes
                              ELSE addedTokenIndexes)
                      /\ boxes[b].left = <<boxes[b].token.rect.x[1] * W, boxes[b].token.rect.x[2]>>
                      /\ boxes[b].top = <<boxes[b].token.rect.y[1] * H, boxes[b].token.rect.y[2]>>
                      /\ boxes[b].width
                         = <<boxes[b].token.rect.width[1] * W, boxes[b].token.rect.width[2]>>
                      /\ boxes[b].height
                         = <<boxes[b].token.rect.height[1] * H, boxes[b].token.rect.height[2]>>
                      /\ boxes[b].left[1] >= 0 /\ boxes[b].top[1] >= 0
                      /\ boxes[b].width[1] > 0 /\ boxes[b].height[1] > 0
                      /\ boxes[b].left[2] = boxes[b].width[2]
                      /\ boxes[b].top[2] = boxes[b].height[2]
                      /\ boxes[b].left[1] + boxes[b].width[1] <= W * boxes[b].left[2]
                      /\ boxes[b].top[1] + boxes[b].height[1] <= H * boxes[b].top[2]

\* the baseline preview draws two highlights on its first page and none on
\* its last page, which holds an unchanged token
C30_Witness ==
    /\ pdf1 # 0 /\ pdf1Extraction # NullExtraction
    /\ Len(Files[pdf1].pages) = 3
    /\ Len(ViewerHighlights("removed", 1)) = 2
    /\ ViewerHighlights("removed", 3) = <<>>
    /\ \E i \in 1..Len(pdf1Extraction.tokens) : pdf1Extraction.tokens[i].pageIndex = 2

(***************************************************************************)
(* Properties of the job coordinator.                                      *)
(***************************************************************************)
\* a compare() call that has not been cancelled is suspended in its extraction
LiveRun == \E i \in 1..Len(runs) : ~runs[i].isCancelled

LastPosted == posted[Len(posted)]

results == <<diffParts, removedTokenIndexes, addedTokenIndexes>>

\* C1: handling a response whose jobId differs from the pending id
\* (also when nothing is pending) leaves the diff segments, both index
\* sets, the error, the busy flag, the note and the pending id unchanged
C1_StaleResponseDiscarded ==
    [][\A k \in 1..Len(toMain) :
          (toMain' = RemoveAt(toMain, k) /\ toMain[k].jobId # pendingJobIdRef)
          => UNCHANGED <<diffParts, removedTokenIndexes, addedTokenIndexes, error,
                         isComparing, comparisonNote, pendingJobIdRef>>]_vars

\* a response has been discarded
C1_Witness ==
    \E n \in 1..Len(handled) : handled[n].kind = "result" /\ ~handled[n].accepted

\* a newer request than the one of job j has started
Superseded(j) == LiveRun \/ j < jobCounterRef

\* C2: once a new request has started, the response of an earlier job never
\* writes the visible diff or the change sets
C2_SupersededAtRequestTime ==
    [][\A k \in 1..Len(toMain) :
          (toMain' = RemoveAt(toMain, k) /\ Superseded(toMain[k].jobId))
          => UNCHANGED results]_vars

\* C3: while an input is missing the coordinator is idle: no results, no
\* error, no note and no pending job id
C3_ClearingReturnsToIdle ==
    (pdf1 = 0 \/ pdf2 = 0)
    => /\ diffParts = <<>>
       /\ removedTokenIndexes = {}
       /\ addedTokenIndexes = {}
       /\ error = null
       /\ comparisonNote = null
       /\ pendingJobIdRef = 0

\* no request newer than the last posted one exists
NoNewerRequest ==
    /\ ~LiveRun
    /\ pdf1 = LastPosted.pdf1
    /\ pdf2 = LastPosted.pdf2

\* what is shown once the terminal event `kind` of request req is accepted
Shows(req, kind) ==
    IF kind = "result"
    THEN /\ diffParts = DiffPayload(req).textDiff
         /\ removedTokenIndexes = SetOf(DiffPayload(req).removedTokenIndexes)
         /\ addedTokenIndexes = SetOf(DiffPayload(req).addedTokenIndexes)
         /\ error = null
    ELSE /\ diffParts = <<>>
         /\ removedTokenIndexes = {}
         /\ addedTokenIndexes = {}
         /\ error = IF kind = "fault" THEN WorkerFaultMessage ELSE DiffThrowMessage

\* C4: when job N+1 was posted after job N, then once the response of N+1
\* has been delivered its terminal event has been accepted and the visible
\* state is that of N+1, in whatever order the two responses arrive
C4_LatestJobWins ==
    (/\ Len(posted) >= 2
     /\ NoNewerRequest
     /\ \E m \in 1..Len(handled) :
           handled[m].kind # "fault" /\ handled[m].jobId = LastPosted.request.jobId)
    => \E n \in 1..Len(handled) :
           /\ handled[n].accepted
           /\ handled[n].jobId = LastPosted.request.jobId
           /\ Shows(LastPosted.request, handled[n].kind)

\* the result of N+1 was accepted, the different result of N arrived after it
C4_Witness ==
    /\ Len(posted) >= 2
    /\ NoNewerRequest
    /\ DiffPayload(posted[Len(posted) - 1].request) # DiffPayload(LastPosted.request)
    /\ \E n, m \in 1..Len(handled) :
          /\ n < m
          /\ handled[n].accepted /\ handled[n].kind = "result"
          /\ handled[n].jobId = LastPosted.request.jobId
          /\ handled[m].kind = "result"
          /\ handled[m].jobId = posted[Len(posted) - 1].request.jobId

\* C5: at most one terminal event is accepted for a job id
C5_OneTerminalEventPerJob ==
    \A n, m \in 1..Len(handled) :
        (n < m /\ handled[n].accepted /\ handled[m].accepted)
        => handled[n].jobId # handled[m].jobId

\* after the worker fault was accepted for a job, the response of that job
\* arrived
C5_Witness ==
    \E n, m \in 1..Len(handled) :
        /\ n < m
        /\ handled[n].accepted
        /\ handled[m].kind # "fault" /\ handled[m].jobId = handled[n].jobId
        /\ ~handled[m].accepted

\* both documents are selected
Requested == pdf1 # 0 /\ pdf2 # 0

\* the request has reached a terminal outcome
Settled ==
    /\ ~LiveRun
    /\ pendingJobIdRef = 0
    /\ ~isComparing
    /\ error # null \/ diffParts # <<>>

\* C6: when from some point on no input is replaced or cleared, the request
\* for the selected documents eventually settles and stays settled: the
\* busy flag is false and a result or an error is shown
C6_RequestSettles ==
    (<>[][gestures' = gestures]_vars) => <>[](Requested => Settled)

\* the request was posted and its result accepted
C6_Witness ==
    /\ Requested /\ Settled
    /\ posted # <<>>
    /\ pdf1 = LastPosted.pdf1 /\ pdf2 = LastPosted.pdf2
    /\ \E n \in 1..Len(handled) :
          /\ handled[n].accepted /\ handled[n].kind = "result"
          /\ handled[n].jobId = LastPosted.request.jobId

\* C7: the job ids of the posted requests strictly increase, and a pending
\* id is the id of the request posted last, which is the job counter
C7_JobIdsIncrease ==
    /\ \A n \in 1..(Len(posted) - 1) :
          posted[n].request.jobId < posted[n + 1].request.jobId
    /\ pendingJobIdRef # 0
       => /\ posted # <<>>
          /\ pendingJobIdRef = jobCounterRef
          /\ pendingJobIdRef = LastPosted.request.jobId

C7_Witness == Len(posted) >= 2 /\ pendingJobIdRef # 0

\* run i resumes, and it has not been cancelled
ResumesLive(i) == runs' = RemoveAt(runs, i) /\ ~runs[i].isCancelled

\* C8: when the extraction of either document fails in a request that was
\* not superseded, the error is set, the results are empty, the busy flag
\* is false, nothing is posted and no job id is consumed
C8_ExtractionFailureFailsRequest ==
    [][\A i \in 1..Len(runs) :
          (/\ ResumesLive(i)
           /\ \/ ~extractTextFromPdf(runs[i].pdf1).ok
              \/ ~extractTextFromPdf(runs[i].pdf2).ok)
          => /\ error' = NoTextMessage
             /\ diffParts' = <<>>
             /\ removedTokenIndexes' = {}
             /\ addedTokenIndexes' = {}
             /\ isComparing' = FALSE
             /\ UNCHANGED <<toWorker, posted, jobCounterRef, pendingJobIdRef>>]_vars

C8_Witness ==
    /\ pdf1 # 0 /\ pdf2 # 0 /\ ~LiveRun
    /\ \/ ~extractTextFromPdf(pdf1).ok
       \/ ~extractTextFromPdf(pdf2).ok
    /\ error = NoTextMessage

\* the combined text length of the two documents of a run
CombinedLength(run) ==
    StrLen(extractTextFromPdf(run.pdf1).fullText)
    + StrLen(extractTextFromPdf(run.pdf2).fullText)

\* C9: when the combined text length exceeds 2,600,000 the request fails
\* with the too-large error: results empty, busy flag false, no note,
\* nothing posted to the worker
C9_TooLargeRejected ==
    [][\A i \in 1..Len(runs) :
          (/\ ResumesLive(i)
           /\ extractTextFromPdf(runs[i].pdf1).ok
           /\ extractTextFromPdf(runs[i].pdf2).ok
           /\ CombinedLength(runs[i]) > 2600000)
          => /\ error' = TooLargeMessage(CombinedLength(runs[i]))
             /\ diffParts' = <<>>
             /\ removedTokenIndexes' = {}
             /\ addedTokenIndexes' = {}
             /\ isComparing' = FALSE
             /\ comparisonNote' = null
             /\ UNCHANGED <<toWorker, posted, jobCounterRef, pendingJobIdRef>>]_vars

C9_Witness ==
    /\ pdf1 # 0 /\ pdf2 # 0 /\ ~LiveRun
    /\ pdf1Extraction # NullExtraction /\ pdf2Extraction # NullExtraction
    /\ error = TooLargeMessage(StrLen(pdf1Extraction.fullText) + StrLen(pdf2Extraction.fullText))
    /\ StrLen(pdf1Extraction.fullText) + StrLen(pdf2Extraction.fullText) > 2600000

\* C10: a worker error event while a job is pending sets the generic
\* error, clears the results and the pending id and ends the busy state;
\* with no job pending it changes nothing
C10_WorkerFault ==
    [][faults' = faults + 1
       => IF pendingJobIdRef # 0
          THEN /\ error' = WorkerFaultMessage
               /\ diffParts' = <<>>
               /\ removedTokenIndexes' = {}
               /\ addedTokenIndexes' = {}
               /\ pendingJobIdRef' = 0
               /\ isComparing' = FALSE
          ELSE UNCHANGED appVars]_vars

C10_Witness ==
    /\ error = WorkerFaultMessage
    /\ \E n \in 1..Len(handled) : handled[n].kind = "fault" /\ handled[n].accepted

\* C13: a run that is not cancelled and gets past the extraction sets an
\* advisory note exactly when its mode is paragraph or sentence; in word
\* mode and when it is rejected as too large the note is empty
C13_NoteIffCoarseMode ==
    [][\A i \in 1..Len(runs) :
          (/\ ResumesLive(i)
           /\ extractTextFromPdf(runs[i].pdf1).ok
           /\ extractTextFromPdf(runs[i].pdf2).ok)
          => IF CombinedLength(runs[i]) > 2600000 \/ CombinedLength(runs[i]) <= 200000
             THEN comparisonNote' = null
             ELSE IF CombinedLength(runs[i]) > 900000
             THEN comparisonNote' = SentenceNote
             ELSE comparisonNote' = ParagraphNote]_vars

\* a paragraph-level request has been posted with its note
C13_Witness ==
    /\ posted # <<>>
    /\ LastPosted.request.mode = "paragraph"
    /\ comparisonNote = ParagraphNote

\* the number of responses to job jobId posted so far: undelivered or delivered
ResponsesTo(jobId) ==
    Cardinality({k \in 1..Len(toMain) : toMain[k].jobId = jobId})
    + Cardinality({k \in 1..Len(handled) :
                      handled[k].kind # "fault" /\ handled[k].jobId = jobId})

\* C31: the worker has posted no response to a request still in its queue
\* and exactly one to every request it has handled; a response is a
\* result or an error with the jobId of its request, and each step of the
\* worker takes one request and posts one response
C31_OneResponsePerRequest ==
    /\ [](\A j \in 1..Len(posted) :
            ResponsesTo(posted[j].request.jobId)
            = IF \E k \in 1..Len(toWorker) : toWorker[k].jobId = posted[j].request.jobId
              THEN 0 ELSE 1)
    /\ [](\A k \in 1..Len(toMain) :
            /\ toMain[k].type \in {"result", "error"}
            /\ \E j \in 1..Len(posted) : posted[j].request.jobId = toMain[k].jobId)
    /\ [][toMain' # toMain /\ Len(toMain') >= Len(toMain)
          => /\ toWorker # <<>> /\ toWorker' = Tail(toWorker)
             /\ Len(toMain') = Len(toMain) + 1
             /\ toMain'[Len(toMain')].jobId = Head(toWorker).jobId
             /\ SubSeq(toMain', 1, Len(toMain)) = toMain]_vars

\* the diff of a job threw and the error response has been delivered
C31_Witness ==
    /\ toWorker = <<>> /\ toMain = <<>>
    /\ Len(posted) = 1
    /\ \E k \in 1..Len(handled) :
          handled[k].kind = "error" /\ handled[k].jobId = posted[1].request.jobId

\* C32: the diff segments and the two index sets are written together:
\* they are all empty or they are the three parts of the response to one
\* posted job, and a step that changes one of them empties all three or
\* writes all three from the response it handles
C32_OneOutcome ==
    /\ [](\/ (diffParts = <<>> /\ removedTokenIndexes = {} /\ addedTokenIndexes = {})
          \/ \E j \in 1..Len(posted) :
                /\ diffParts = DiffPayload(posted[j].request).textDiff
                /\ removedTokenIndexes
                   = {DiffPayload(posted[j].request).removedTokenIndexes[i] :
                         i \in 1..Len(DiffPayload(posted[j].request).removedTokenIndexes)}
                /\ addedTokenIndexes
                   = {DiffPayload(posted[j].request).addedTokenIndexes[i] :
                         i \in 1..Len(DiffPayload(posted[j].request).addedTokenIndexes)})
    /\ [][results' # results
          => \/ (diffParts' = <<>> /\ removedTokenIndexes' = {} /\ addedTokenIndexes' = {})
             \/ \E k \in 1..Len(toMain) :
                   /\ toMain' = RemoveAt(toMain, k)
                   /\ toMain[k].type = "result"
                   /\ diffParts' = toMain[k].payload.textDiff
                   /\ removedTokenIndexes'
                      = {toMain[k].payload.removedTokenIndexes[i] :
                            i \in 1..Len(toMain[k].payload.removedTokenIndexes)}
                   /\ addedTokenIndexes'
                      = {toMain[k].payload.addedTokenIndexes[i] :
                            i \in 1..Len(toMain[k].payload.addedTokenIndexes)}]_vars

\* a result with removed and added tokens is shown
C32_Witness ==
    /\ Len(diffParts) >= 2
    /\ removedTokenIndexes # {} /\ addedTokenIndexes # {}
    /\ pendingJobIdRef = 0

\* hasComparisonInputs && !isComparing && !error
canShowPreviews == pdf1 # 0 /\ pdf2 # 0 /\ ~isComparing /\ error = null

\* DocumentColumn: hasFile && showPreview
shouldRenderPreview(side) == ViewerProps(side).file # 0 /\ canShowPreviews

\* the comparison of the selected documents has completed with a result
ComparisonCompleted ==
    /\ ~LiveRun
    /\ posted # <<>>
    /\ pdf1 = LastPosted.pdf1 /\ pdf2 = LastPosted.pdf2
    /\ \E n \in 1..Len(handled) :
          /\ handled[n].accepted /\ handled[n].kind = "result"
          /\ handled[n].jobId = LastPosted.request.jobId

\* C34 as stated: a preview is rendered only when both documents are
\* selected and their comparison has completed with a result
C34_PreviewsHiddenUntilReady ==
    (\E side \in {"removed", "added"} : shouldRenderPreview(side))
    => /\ pdf1 # 0 /\ pdf2 # 0
       /\ ~isComparing /\ error = null
       /\ ComparisonCompleted

\* C36 as stated: non-empty index sets shown with two extractions are the
\* sets of the token diff of these extractions
C36_SetsOfStoredExtractions ==
    (/\ removedTokenIndexes # {} \/ addedTokenIndexes # {}
     /\ pdf1Extraction # NullExtraction /\ pdf2Extraction # NullExtraction)
    => /\ removedTokenIndexes
          = {t.absoluteIndex : t \in
                UNION {SetOf(part.value) :
                          part \in {c \in SetOf(diffArrays(pdf1Extraction.tokens,
                                                           pdf2Extraction.tokens)) : c.removed}}}
       /\ addedTokenIndexes
          = {t.absoluteIndex : t \in
                UNION {SetOf(part.value) :
                          part \in {c \in SetOf(diffArrays(pdf1Extraction.tokens,
                                                           pdf2Extraction.tokens)) : c.added}}}

\* the error the request for the selected documents ends with, if any
ErrorOfInputs ==
    IF pdf1 = 0 \/ pdf2 = 0 THEN null
    ELSE IF ~ExtractionOf[pdf1].ok THEN NormalizedMessage(ExtractionOf[pdf1].message)
    ELSE IF ~ExtractionOf[pdf2].ok THEN NormalizedMessage(ExtractionOf[pdf2].message)
    ELSE IF TooLarge(StrLen(ExtractionOf[pdf1].fullText) + StrLen(ExtractionOf[pdf2].fullText))
    THEN TooLargeMessage(StrLen(ExtractionOf[pdf1].fullText)
                         + StrLen(ExtractionOf[pdf2].fullText))
    ELSE null

\* the request for the selected documents has settled with its error
SettledWithError ==
    /\ pdf1 # 0 /\ pdf2 # 0
    /\ ~LiveRun
    /\ ErrorOfInputs # null
    /\ error = ErrorOfInputs
    /\ results = <<<<>>, {}, {}>>

\* C37 as stated: once the request for the selected documents has settled
\* with an extraction error or the too-large error, the error and the empty
\* results stay until an input is changed or cleared
C37_SettledErrorStable ==
    [][(SettledWithError /\ gestures' = gestures)
       => (error' = error /\ results' = results)]_vars

\* C38 as stated: while a job id is pending the busy flag is true
C38_PendingImpliesBusy == pendingJobIdRef # 0 => isComparing

\* C39: while an error is shown the diff segments and both index sets are
\* empty, and accepting a result clears the error
C39_ErrorExcludesResult ==
    /\ [](error # null
          => (diffParts = <<>> /\ removedTokenIndexes = {} /\ addedTokenIndexes = {}))
    /\ [][\A k \in 1..Len(toMain) :
             (/\ toMain' = RemoveAt(toMain, k)
              /\ toMain[k].jobId = pendingJobIdRef
              /\ toMain[k].type = "result")
             => error' = null]_vars

\* an error is shown, with empty results, after a result had been accepted
C39_Witness ==
    /\ error # null
    /\ diffParts = <<>> /\ removedTokenIndexes = {} /\ addedTokenIndexes = {}
    /\ \E n \in 1..Len(handled) :
          /\ handled[n].accepted /\ handled[n].kind = "result"
          /\ DiffPayload(posted[handled[n].jobId].request).textDiff # <<>>

\* C40: the resumption of a cancelled run changes nothing of the App and
\* posts nothing, and every request posted carries the extractions of the
\* documents selected at that moment
C40_SupersededRunIsInert ==
    /\ [][\A i \in 1..Len(runs) :
             (runs' = RemoveAt(runs, i) /\ runs[i].isCancelled)
             => UNCHANGED <<pdf1Extraction, pdf2Extraction, error, comparisonNote,
                            diffParts, removedTokenIndexes, addedTokenIndexes,
                            isComparing, jobCounterRef, pendingJobIdRef, toWorker, posted>>]_vars
    /\ [][posted' # posted
          => /\ posted'[Len(posted')].pdf1 = pdf1
             /\ posted'[Len(posted')].pdf2 = pdf2
             /\ posted'[Len(posted')].request.tokens1 = ExtractionOf[pdf1].tokens
             /\ posted'[Len(posted')].request.tokens2 = ExtractionOf[pdf2].tokens
             /\ posted'[Len(posted')].request.text1 = ExtractionOf[pdf1].fullText
             /\ posted'[Len(posted')].request.text2 = ExtractionOf[pdf2].fullText]_vars

\* a cancelled run has resumed, and the run of the new selection has posted
C40_Witness ==
    /\ runs = <<>>
    /\ gestures = 3
    /\ Len(posted) = 1
    /\ LastPosted.pdf1 = pdf1 /\ LastPosted.pdf2 = pdf2
    /\ pdf1 # pdf2

\* the positions, among all the items of page, of the items that yield a token
KeptPositions(page) ==
    {k \in 1..Len(page.items) :
        /\ page.items[k].hasStr
        /\ NormalizeStr(page.items[k].str) # <<>>
        /\ OnPage(page.items[k], page.width, page.height).left
           < OnPage(page.items[k], page.width, page.height).right
        /\ OnPage(page.items[k], page.width, page.height).top
           < OnPage(page.items[k], page.width, page.height).bottom}

MaxRenders == 2

Viewers == {"App", "component"}

\* let cancelled = false; let pdfInstance = null; renderDocument()
NewRender ==
    [pc |-> "arrayBuffer", pageIndex |-> 0, cancelled |-> FALSE,
     pdfInstance |-> FALSE, handle |-> "none"]

\* finally { if (pdfInstance) { pdfInstance.destroy(); pdfInstance = null } }
Finally(run) ==
    IF run.pdfInstance
    THEN [run EXCEPT !.pc = "done", !.handle = "destroyed", !.pdfInstance = FALSE]
    ELSE [run EXCEPT !.pc = "done"]

LoopTop_NoCheck(run, numPages) ==
    IF run.pageIndex < numPages THEN [run EXCEPT !.pc = "getPage"] ELSE Finally(run)

\* for (...; pageIndex < pdf.numPages; ...) { if (cancelled) break; await pdf.getPage(...)
LoopTop(run, numPages) ==
    IF run.pageIndex < numPages
    THEN IF run.cancelled THEN Finally(run) ELSE [run EXCEPT !.pc = "getPage"]
    ELSE Finally(run)

\* the effect's cleanup: cancelled = true and the handle, if there is one,
\* is destroyed; the viewer of App.tsx also forgets it
CleanupRender(run, viewer) ==
    IF run.pc = "done" THEN [run EXCEPT !.cancelled = TRUE]
    ELSE [run EXCEPT !.cancelled = TRUE,
                     !.handle = IF run.pdfInstance THEN "destroyed" ELSE @,
                     !.pdfInstance = IF viewer = "App" THEN FALSE ELSE @]

\* how the promise a render waits for can settle: what is pending on a
\* destroyed document, a page or a render task, is rejected as cancelled
\* ('Transport destroyed', RenderingCancelledException)
Settles(run) ==
    IF run.handle = "destroyed" THEN {"cancelled"}
    ELSE IF run.pc = "arrayBuffer" THEN {"resolve"}
    ELSE {"resolve", "reject"}

\* the catch block: the viewer component returns on a cancellation, every
\* other error replaces the content of the container by the message
Caught(container, i, outcome, viewer) ==
    IF outcome = "cancelled" /\ viewer = "component" THEN container
    ELSE <<[kind |-> "error", render |-> i, pageIndex |-> 0]>>

RenderInit ==
    /\ AppInit
    /\ probe \in {[kind |-> "render", viewer |-> v, numPages |-> n, mounted |-> TRUE,
                    effects |-> 0, renders |-> <<>>, container |-> <<>>] :
                      v \in Viewers, n \in 1..MaxPages}

\* the effect runs, on mount or when file, extraction, highlights,
\* highlightType or zoom changed: the cleanup of the previous run, then the
\* body, which starts a render when there are a file and an extraction
renderEffect(ready) ==
    /\ probe.kind = "render" /\ probe.mounted
    /\ probe.effects < MaxRenders
    /\ probe' = [probe EXCEPT
                    !.effects = @ + 1,
                    !.container = <<>>,
                    !.renders = [i \in 1..Len(@) |-> CleanupRender(@[i], probe.viewer)]
                                \o (IF ready THEN <<NewRender>> ELSE <<>>)]
    /\ UNCHANGED <<appVars, runs, toWorker, toMain, posted, handled, gestures, faults>>

\* the viewer is unmounted: the cleanup of the last effect run
unmountViewer ==
    /\ probe.kind = "render" /\ probe.mounted
    /\ probe.effects >= 1
    /\ probe' = [probe EXCEPT
                    !.mounted = FALSE,
                    !.container = <<>>,
                    !.renders = [i \in 1..Len(@) |-> CleanupRender(@[i], probe.viewer)]]
    /\ UNCHANGED <<appVars, runs, toWorker, toMain, posted, handled, gestures, faults>>

\* renderDocument of render i continues after the promise it waits for
\* has settled, up to its next await or its end
renderDocument(i, outcome) ==
    /\ probe.kind = "render"
    /\ i \in 1..Len(probe.renders)
    /\ probe.renders[i].pc # "done"
    /\ outcome \in Settles(probe.renders[i])
    /\ LET run == probe.renders[i]
       IN  probe' =
             IF outcome # "resolve"
             THEN [probe EXCEPT
                     !.container = Caught(@, i, outcome, probe.viewer),
                     !.renders[i] = Finally(run)]
             ELSE IF run.pc = "arrayBuffer"
             THEN [probe EXCEPT
                     !.renders[i] = IF run.cancelled THEN Finally(run)
                                    ELSE [run EXCEPT !.pc = "getDocument"]]
             ELSE IF run.pc = "getDocument"
             THEN [probe EXCEPT
                     !.renders[i] = LoopTop([run EXCEPT !.pdfInstance = TRUE,
                                                        !.handle = "open"],
                                            probe.numPages)]
             ELSE IF run.pc = "getPage"
             THEN [probe EXCEPT !.renders[i] = [run EXCEPT !.pc = "render"]]
             ELSE [probe EXCEPT
                     !.container = Append(@, [kind |-> "page", render |-> i,
                                              pageIndex |-> run.pageIndex]),
                     !.renders[i] = LoopTop([run EXCEPT !.pageIndex = @ + 1],
                                            probe.numPages)]
    /\ UNCHANGED <<appVars, runs, toWorker, toMain, posted, handled, gestures, faults>>

RenderNext ==
    \/ \E ready \in BOOLEAN : renderEffect(ready)
    \/ unmountViewer
    \/ \E i \in 1..MaxRenders, outcome \in {"resolve", "reject", "cancelled"} :
          renderDocument(i, outcome)

SpecRender == RenderInit /\ [][RenderNext]_vars

\* the renders of the viewer
Renders == IF probe.kind = "render" THEN probe.renders ELSE <<>>

\* C33: a cancelled render has no page, with its highlight layer, in the
\* container, which the cancellation had emptied, and holds no open
\* document handle
C33_CancelledRenderStops ==
    \A i \in 1..Len(Renders) :
        Renders[i].cancelled
        => /\ \A k \in 1..Len(probe.container) :
                 ~(probe.container[k].kind = "page" /\ probe.container[k].render = i)
           /\ Renders[i].handle # "open"

\* a render cancelled while its first page was drawn has ended with its
\* handle destroyed, and the page in the container is that of the next render
C33_Witness ==
    /\ Len(Renders) = 2
    /\ Renders[1].cancelled /\ Renders[1].pc = "done"
    /\ Renders[1].pageIndex = 0 /\ Renders[1].handle = "destroyed"
    /\ probe.container = <<[kind |-> "page", render |-> 2, pageIndex |-> 0]>>

====
